---- MODULE Spec2Model ----
(***************************************************************************)
(* Task_bot: a Telegram task organiser.  The model covers the task store   *)
(* (db.py), the text parser, the message/callback handlers and the         *)
(* reminder jobs (bot.py).                                                 *)
(*                                                                         *)
(* Time is an integer number of seconds on the bot's local time line       *)
(* (LOCAL_TZ).  A handler runs within one clock quantum: every             *)
(* datetime.now() of one handler run reads the same value of `now`.        *)
(* A text is a sequence of tokens; white space between tokens is not       *)
(* represented.                                                            *)
(***************************************************************************)
EXTENDS Integers, Sequences, FiniteSets, Bags, TLC

(***************************************************************************)
(* Bounds of the model.                                                    *)
(***************************************************************************)
MaxTasks  == 2      \* rows ever inserted (AUTOINCREMENT ids 1..MaxTasks)
MaxTimers == 2      \* jobs pending in the job queue at one time
MaxSteps  == 4      \* handler runs, job runs and clock steps in one behaviour
MaxActs   == 3      \* what users and operator do in one behaviour of SpecJobs
MaxPhrases == 3     \* phrases in a text handed to the parser

(***************************************************************************)
(* Calendar arithmetic of datetime / timedelta.                            *)
(***************************************************************************)
SecPerMin  == 60
SecPerHour == 3600
SecPerDay  == 86400

Users == {1, 2}

\* The wall clock when the process is first started: day 1, 15:50:00.
StartTime == 1 * SecPerDay + 15 * SecPerHour + 50 * SecPerMin
\* The step of the model's clock.
TickStep  == 10 * SecPerMin

\* Python None for Optional[datetime]; every real instant is >= 0.
NoneDt == -1
\* SQL NULL / Python None for an ISO string, a row or a regex match.
NULL == <<>>

VARIABLES
    tasks,          \* table tasks: id -> [user_id, text, due_at, status, completed_at]
    nextId,         \* next AUTOINCREMENT id
    timers,         \* bag of pending job-queue jobs run_once(send_reminder, ...)
    now,            \* wall clock, seconds
    steps,          \* number of steps taken so far
    up,             \* the process is running and post_init has finished
    edit_task_id,   \* context.user_data["edit_task_id"] per user, 0 when unset
    last,           \* the handler or job that ran last, with its inputs
    frame,          \* the handler in flight: its position and its locals
    torn            \* ids of rows that hold the text of an edit and not yet its due_at

vars == <<tasks, nextId, timers, now, steps, up, edit_task_id, last, frame, torn>>

(***************************************************************************)
(* datetime helpers.                                                       *)
(***************************************************************************)
\* datetime.isoformat(): "YYYY-MM-DDTHH:MM:SS+hh:mm", a date and a time part.
isoformat(dt) == <<dt \div SecPerDay, dt % SecPerDay>>

\* datetime.fromisoformat(s).astimezone(LOCAL_TZ)
fromisoformat(s) == s[1] * SecPerDay + s[2]

\* dt.replace(hour=h, minute=m, second=0, microsecond=0)
replace_hm(dt, h, m) == (dt \div SecPerDay) * SecPerDay + h * SecPerHour + m * SecPerMin

(***************************************************************************)
(* Texts.  A token is [k, h, m]:                                           *)
(*   "word"  an ordinary word, h names it                                  *)
(*   "do"    the preposition of the deadline pattern ("до", "к")           *)
(*   "v"     the preposition of the clock pattern ("в", "на")              *)
(*   "num"   digits H or H:MM, h = H, m = MM or -1 when there is no ":MM"  *)
(*   "chas"  the hour word ("час", "часа", "часов")                        *)
(*   "mer"   a part-of-day word, h = 1 утра, 2 дня, 3 вечера, 4 ночи       *)
(*   "day"   a date phrase the date search knows, h = its offset in days   *)
(*   "punct" one of the characters , . -                                   *)
(*   "menu"  the whole text of a reply-keyboard button, h names it         *)
(***************************************************************************)
Tok(k, h, m) == [k |-> k, h |-> h, m |-> m]

\* The placeholder label of a task whose text held nothing but its deadline.
Zadacha == <<Tok("word", 0, 0)>>

\* str.replace(sub, by): every non-overlapping occurrence, left to right.
RECURSIVE str_replace(_, _, _)
str_replace(s, sub, by) ==
    IF Len(s) < Len(sub) \/ Len(sub) = 0 THEN s
    ELSE IF SubSeq(s, 1, Len(sub)) = sub
         THEN by \o str_replace(SubSeq(s, Len(sub) + 1, Len(s)), sub, by)
         ELSE <<s[1]>> \o str_replace(Tail(s), sub, by)

\* str.strip(" ,.-")
RECURSIVE str_strip(_)
str_strip(s) ==
    IF s = <<>> THEN s
    ELSE IF s[1].k = "punct" THEN str_strip(Tail(s))
    ELSE IF s[Len(s)].k = "punct" THEN str_strip(SubSeq(s, 1, Len(s) - 1))
    ELSE s

\* re.search of the deadline pattern (до|к) H[:MM]: the left-most match as
\* its first position, 0 when there is none.
search_due(raw) ==
    LET hits == {i \in 1..(Len(raw) - 1) : raw[i].k = "do" /\ raw[i + 1].k = "num"}
    IN  IF hits = {} THEN 0 ELSE CHOOSE i \in hits : \A j \in hits : i <= j

\* group(0) of a deadline match at position i.
group0_due(raw, i) == SubSeq(raw, i, i + 1)

\* re.search of the clock pattern (в|на) H[:MM] [час] [утра|дня|вечера|ночи].
search_at(raw) ==
    LET hits == {i \in 1..(Len(raw) - 1) : raw[i].k = "v" /\ raw[i + 1].k = "num"}
    IN  IF hits = {} THEN 0 ELSE CHOOSE i \in hits : \A j \in hits : i <= j

\* Last position of a clock match at position i: the optional hour word and
\* the optional part-of-day word are taken when they follow.
end_at(raw, i) ==
    LET a == IF Len(raw) >= i + 2 /\ raw[i + 2].k = "chas" THEN i + 2 ELSE i + 1
    IN  IF Len(raw) >= a + 1 /\ raw[a + 1].k = "mer" THEN a + 1 ELSE a

group0_at(raw, i) == SubSeq(raw, i, end_at(raw, i))

\* group(3) of a clock match: the part-of-day word, 0 when absent.
mer_at(raw, i) == IF raw[end_at(raw, i)].k = "mer" THEN raw[end_at(raw, i)].h ELSE 0

\* int(m.group(3) or 0) for the minutes of a "num" token.
minute_of(t) == IF t.m = -1 THEN 0 ELSE t.m

\* The hour shift of a part-of-day word (both in the clock pattern and in
\* normalize_russian_time_phrases).
mer_hour(hour, mer) ==
    IF mer \in {2, 3} /\ 1 <= hour /\ hour <= 11 THEN hour + 12
    ELSE IF mer \in {1, 4} /\ hour = 12 THEN 0
    ELSE hour

\* normalize_russian_time_phrases: "H час(а|ов) <part of day>" becomes "HH:00".
\* The text is returned as it is when it holds "через"; no token of the
\* model spells that word.
RECURSIVE normalize_russian_time_phrases(_)
normalize_russian_time_phrases(s) ==
    IF Len(s) < 3 THEN s
    ELSE IF s[1].k = "num" /\ s[1].m = -1 /\ s[2].k = "chas" /\ s[3].k = "mer"
         THEN <<Tok("num", mer_hour(s[1].h, s[3].h), 0)>>
              \o normalize_russian_time_phrases(SubSeq(s, 4, Len(s)))
         ELSE <<s[1]>> \o normalize_russian_time_phrases(Tail(s))

\* dateparser.search.search_dates(text, languages=["ru"], settings): the
\* phrases found, in text order, each with its resolved datetime.  The
\* library is a collaborator; the model knows its relative day words
\* (today, tomorrow, yesterday: the same clock time on that day) and a
\* clock token HH:MM (today at that time).
date_hits(s) ==
    {i \in 1..Len(s) : s[i].k = "day" \/ (s[i].k = "num" /\ s[i].m # -1
                                          /\ s[i].h <= 23 /\ s[i].m <= 59)}

\* The k-th smallest element of a set of positions.
nth_of(hits, k) == CHOOSE i \in hits : Cardinality({j \in hits : j < i}) = k - 1

date_match(tok, t) ==
    IF tok.k = "day" THEN <<(<<tok>>), t + tok.h * SecPerDay>>
    ELSE <<(<<tok>>), replace_hm(t, tok.h, tok.m)>>

search_dates_in(s, t, hits) ==
    [k \in 1..Cardinality(hits) |-> date_match(s[nth_of(hits, k)], t)]

search_dates(s, t) == search_dates_in(s, t, date_hits(s))

due_hour_to_seven(hour) == IF 1 <= hour /\ hour <= 7 THEN hour + 12 ELSE hour

\* The hour of the deadline pattern: "до 4" is 16:00.
due_hour(hour) == IF 1 <= hour /\ hour <= 8 THEN hour + 12 ELSE hour

\* dtime(hour, minute) when both are in range, NULL (nothing recorded) otherwise.
time_in_range(hour, minute) ==
    IF 0 <= hour /\ hour <= 23 /\ 0 <= minute /\ minute <= 59
    THEN <<hour, minute>> ELSE NULL

\* Step 1.1: the time the deadline match at m_due records (NULL: none).
time_due(raw, m_due) ==
    IF m_due = 0 THEN NULL
    ELSE time_in_range(due_hour(raw[m_due + 1].h), minute_of(raw[m_due + 1]))

\* Step 1.2: the time the clock match at m_at records (NULL: none).
time_at(raw, m_at) ==
    IF m_at = 0 THEN NULL
    ELSE time_in_range(mer_hour(raw[m_at + 1].h, mer_at(raw, m_at)),
                       minute_of(raw[m_at + 1]))

\* Steps 1.1 and 1.2 of parse_task_and_due, given the deadline match and
\* its time: <<m_due, m_at, found_time>>.  The clock pattern is searched
\* only when the deadline pattern recorded no time (m_at = 0 otherwise).
find_time_at(raw, m_due, t1) ==
    IF t1 # NULL THEN <<m_due, 0, t1>>
    ELSE <<m_due, search_at(raw), time_at(raw, search_at(raw))>>

find_time_due(raw, m_due) == find_time_at(raw, m_due, time_due(raw, m_due))

find_time(raw) == find_time_due(raw, search_due(raw))

\* The text handed to the date search: raw with the span of the recorded
\* time replaced by a blank.  f = find_time(raw).
clean_text_for_date(raw, f) ==
    IF f[3] = NULL THEN raw
    ELSE IF f[2] = 0 THEN str_replace(raw, group0_due(raw, f[1]), <<>>)
    ELSE str_replace(raw, group0_at(raw, f[2]), <<>>)

\* Step 3, the merge: final_dt from the clock t, the regex time and the
\* matches of the date search (NoneDt: no due time).
merge_due_no_roll_at_now(t, found_time, matches) ==
    IF matches # <<>>
    THEN IF found_time # NULL
         THEN replace_hm(matches[Len(matches)][2], found_time[1], found_time[2])
         ELSE matches[Len(matches)][2]
    ELSE IF found_time # NULL
         THEN IF replace_hm(t, found_time[1], found_time[2]) < t
              THEN replace_hm(t, found_time[1], found_time[2]) + SecPerDay
              ELSE replace_hm(t, found_time[1], found_time[2])
         ELSE NoneDt

merge_due_first_match(t, found_time, matches) ==
    IF matches # <<>>
    THEN IF found_time # NULL
         THEN replace_hm(matches[1][2], found_time[1], found_time[2])
         ELSE matches[1][2]
    ELSE IF found_time # NULL
         THEN IF replace_hm(t, found_time[1], found_time[2]) <= t
              THEN replace_hm(t, found_time[1], found_time[2]) + SecPerDay
              ELSE replace_hm(t, found_time[1], found_time[2])
         ELSE NoneDt

merge_due(t, found_time, matches) ==
    IF matches # <<>>
    THEN IF found_time # NULL
         THEN replace_hm(matches[Len(matches)][2], found_time[1], found_time[2])
         ELSE matches[Len(matches)][2]
    ELSE IF found_time # NULL
         THEN IF replace_hm(t, found_time[1], found_time[2]) <= t
              THEN replace_hm(t, found_time[1], found_time[2]) + SecPerDay
              ELSE replace_hm(t, found_time[1], found_time[2])
         ELSE NoneDt

\* raw with the regex span removed: the deadline span whenever a time was
\* recorded and the deadline pattern matched, else the clock span.
cut_time(raw, f) ==
    IF f[3] # NULL /\ f[1] # 0 THEN str_replace(raw, group0_due(raw, f[1]), <<>>)
    ELSE IF f[3] # NULL /\ f[2] # 0 THEN str_replace(raw, group0_at(raw, f[2]), <<>>)
    ELSE raw

\* ... and with the phrase the date search matched removed.
cut_phrase(s, matches) ==
    IF matches # <<>> /\ matches[Len(matches)][1] # <<>>
    THEN str_replace(s, matches[Len(matches)][1], <<>>) ELSE s

task_text_of_no_placeholder(s) == s

\* The task text of a text with a due time: stripped, or the placeholder.
task_text_of(s) == IF s = <<>> THEN Zadacha ELSE s

parse_result(raw, f, matches, final_dt) ==
    IF final_dt # NoneDt
    THEN <<task_text_of(str_strip(cut_phrase(cut_time(raw, f), matches))), final_dt>>
    ELSE <<raw, NoneDt>>

parse_matches(raw, t, f, matches) ==
    parse_result(raw, f, matches, merge_due(t, f[3], matches))

parse_found(raw, t, f) ==
    parse_matches(raw, t, f,
        search_dates(normalize_russian_time_phrases(clean_text_for_date(raw, f)), t))

\* parse_task_and_due(text) read at clock t: <<task_text, final_dt>>,
\* final_dt = NoneDt for None.
parse_task_and_due(text, t) == parse_found(text, t, find_time(text))

(***************************************************************************)
(* The task store (db.py).  A table is a function from the ids of its rows *)
(* to the rows; each operation takes the table and returns the new table   *)
(* or the rows selected.  Columns created_at and notified are written by   *)
(* no statement after the INSERT and read by none; they are left out.      *)
(***************************************************************************)
\* CURRENT_TIMESTAMP: "YYYY-MM-DD HH:MM:SS"
CURRENT_TIMESTAMP(t) == <<t \div SecPerDay, t % SecPerDay>>

\* INSERT INTO tasks (user_id, text, due_at): status defaults to 'active',
\* completed_at to NULL.
add_task(T, task_id, user_id, text, due_at_iso) ==
    [i \in DOMAIN T \cup {task_id} |->
        IF i = task_id
        THEN [user_id |-> user_id, text |-> text, due_at |-> due_at_iso,
              status |-> "active", completed_at |-> NULL]
        ELSE T[i]]

\* Rows of a set of ids as <<id, text, due_at>>, ORDER BY id DESC.
RECURSIVE rows_desc(_, _)
rows_desc(T, ids) ==
    IF ids = {} THEN <<>>
    ELSE LET i == CHOOSE x \in ids : \A y \in ids : y <= x
         IN  <<(<<i, T[i].text, T[i].due_at>>)>> \o rows_desc(T, ids \ {i})

get_tasks_all_users(T, user_id) ==
    rows_desc(T, {i \in DOMAIN T : T[i].status = "active"})

get_tasks_any_status(T, user_id) ==
    rows_desc(T, {i \in DOMAIN T : T[i].user_id = user_id})

\* SELECT id, text, due_at ... WHERE user_id = ? AND status = 'active'
get_tasks(T, user_id) ==
    rows_desc(T, {i \in DOMAIN T : T[i].user_id = user_id /\ T[i].status = "active"})

get_task_any_owner(T, user_id, task_id) ==
    IF task_id \in DOMAIN T
    THEN <<task_id, T[task_id].text, T[task_id].due_at>>
    ELSE NULL

\* SELECT id, text, due_at ... WHERE id = ? AND user_id = ?  (row or None)
get_task(T, user_id, task_id) ==
    IF task_id \in DOMAIN T /\ T[task_id].user_id = user_id
    THEN <<task_id, T[task_id].text, T[task_id].due_at>>
    ELSE NULL

\* UPDATE tasks SET due_at = ? WHERE id = ? AND user_id = ?
update_task_due_reopen(T, user_id, task_id, due_at_iso) ==
    [i \in DOMAIN T |->
        IF i = task_id /\ T[i].user_id = user_id
        THEN [T[i] EXCEPT !.due_at = due_at_iso, !.status = "active"] ELSE T[i]]

update_task_due(T, user_id, task_id, due_at_iso) ==
    [i \in DOMAIN T |->
        IF i = task_id /\ T[i].user_id = user_id
        THEN [T[i] EXCEPT !.due_at = due_at_iso] ELSE T[i]]

\* SELECT DISTINCT user_id ... WHERE status = 'active'
get_users_with_tasks(T) ==
    {T[i].user_id : i \in {j \in DOMAIN T : T[j].status = "active"}}

\* SELECT id ... WHERE user_id = ? AND status = 'done': the ids selected.
get_archived_tasks(T, user_id) ==
    {i \in DOMAIN T : T[i].user_id = user_id /\ T[i].status = "done"}

\* DELETE FROM tasks WHERE id = ? AND user_id = ?
delete_task_any_owner(T, user_id, task_id) ==
    [i \in DOMAIN T \ {task_id} |-> T[i]]

delete_task(T, user_id, task_id) ==
    [i \in {j \in DOMAIN T : ~(j = task_id /\ T[j].user_id = user_id)} |-> T[i]]

\* UPDATE tasks SET status = 'done', completed_at = CURRENT_TIMESTAMP WHERE ...
set_task_done_no_stamp(T, user_id, task_id, t) ==
    [i \in DOMAIN T |->
        IF i = task_id /\ T[i].user_id = user_id
        THEN [T[i] EXCEPT !.status = "done"] ELSE T[i]]

set_task_done(T, user_id, task_id, t) ==
    [i \in DOMAIN T |->
        IF i = task_id /\ T[i].user_id = user_id
        THEN [T[i] EXCEPT !.status = "done", !.completed_at = CURRENT_TIMESTAMP(t)]
        ELSE T[i]]

\* UPDATE tasks SET text = ? WHERE id = ? AND user_id = ?
update_task_text(T, user_id, task_id, new_text) ==
    [i \in DOMAIN T |->
        IF i = task_id /\ T[i].user_id = user_id
        THEN [T[i] EXCEPT !.text = new_text] ELSE T[i]]

(***************************************************************************)
(* The job queue.  A job is [task_id, chat_id, fireAt, task_text]; `when`  *)
(* is a delay in seconds from the clock t of the call.                     *)
(***************************************************************************)
Job(task_id, chat_id, fireAt, task_text) ==
    [task_id |-> task_id, chat_id |-> chat_id, fireAt |-> fireAt, task_text |-> task_text]

run_once_cancelling(Q, t, when, chat_id, task_id, task_text) ==
    [j \in {k \in BagToSet(Q) : k.task_id # task_id} |-> Q[j]]
        (+) SetToBag({Job(task_id, chat_id, t + when, task_text)})

run_once_replacing(Q, t, when, chat_id, task_id, task_text) ==
    SetToBag({Job(task_id, chat_id, t + when, task_text)})

\* job_queue.run_once(send_reminder, when=..., chat_id=..., data={...})
run_once(Q, t, when, chat_id, task_id, task_text) ==
    Q (+) SetToBag({Job(task_id, chat_id, t + when, task_text)})

(***************************************************************************)
(* Inputs of the handlers.                                                 *)
(***************************************************************************)
\* "note"
MsgNote == <<Tok("word", 1, 0)>>
\* "milk до 4": the deadline pattern, 16:00
MsgDue  == <<Tok("word", 2, 0), Tok("do", 0, 0), Tok("num", 4, -1)>>
\* "call сегодня в 10": a date phrase and a clock time, today 10:00
MsgPast == <<Tok("word", 3, 0), Tok("day", 0, 0), Tok("v", 0, 0), Tok("num", 10, -1)>>
\* "Показать задачи": a reply-keyboard button
MsgMenu == <<Tok("menu", 1, 0)>>

Messages == {MsgNote, MsgDue, MsgPast, MsgMenu}

\* Task ids a callback token can carry: the ids given out so far (buttons
\* of live, done and deleted tasks) and one id never given out.
TaskIds == 1..(IF nextId <= MaxTasks THEN nextId ELSE MaxTasks)

\* The minutes of the snooze buttons (rem_snooze:<id>:<minutes>).
SnoozeMinutes == {5, 10, 60}

\* The modes of the reminder-offset buttons (set_remind:<id>:<mode>).
RemindModes == {"5", "10", "60", "exact"}

\* Callback data no button of the bot carries, as its fields between the
\* colons: a task id or minutes that are no integer, a field too few or too
\* many, a mode that is no button's.
OddTokens ==
    { <<"rem_done", "x">>, <<"rem_done", "1", "2">>,
      <<"rem_snooze", "1">>, <<"rem_snooze", "x", "5">>, <<"rem_snooze", "1", "x">>,
      <<"set_remind", "1">>, <<"set_remind", "x", "5">>,
      <<"set_remind", "1", "abc">>, <<"set_remind", "1", "7">>,
      <<"edit", "x">>, <<"edit", "1", "2">>,
      <<"del", "x">>, <<"del", "1", "2">>,
      <<"done", "x">>, <<"done", "1", "2">> }

\* int(s) succeeds (it raises ValueError otherwise).
is_int(s) == s \in {"1", "2", "5", "7", "10", "60"}

\* int(s) for the strings that are digits.
int_of_mode(mode) ==
    CASE mode = "1" -> 1 [] mode = "2" -> 2 [] mode = "5" -> 5
      [] mode = "7" -> 7 [] mode = "10" -> 10 [] mode = "60" -> 60

(***************************************************************************)
(* `last` records the handler or job that ran last: its name, the user it  *)
(* ran for, the task id it was given, the kind of message it sent back     *)
(* (reply) and, for a reminder, the text of the message.                   *)
(***************************************************************************)
Last(op, u, id, reply, text) ==
    [op |-> op, u |-> u, id |-> id, reply |-> reply, text |-> text]

\* No handler is in flight.
Idle == [pc |-> "idle", user_id |-> 0, task_id |-> 0, text |-> <<>>,
         due_iso |-> NULL, t |-> 0]

\* Every step of a behaviour counts against MaxSteps.  A handler or a job
\* that runs as one step leaves no handler in flight and no row half written.
Step == steps < MaxSteps /\ steps' = steps + 1 /\ UNCHANGED <<frame, torn>>

\* The bot has started for the first time, on an empty database.
Init ==
    /\ tasks = <<>>
    /\ nextId = 1
    /\ timers = EmptyBag
    /\ now = StartTime
    /\ steps = 0
    /\ up = TRUE
    /\ edit_task_id = [u \in Users |-> 0]
    /\ last = Last("init", 0, 0, "", <<>>)
    /\ frame = Idle
    /\ torn = {}

(***************************************************************************)
(* Message handlers.                                                       *)
(***************************************************************************)
\* create_new_task, given the parse <<task_text, due_dt>> and due_dt after
\* the "not in the past" check.
create_task_due(user_id, task_text, parsed_dt, due_dt) ==
    /\ nextId <= MaxTasks
    /\ due_dt # NoneDt => BagCardinality(timers) < MaxTimers
    /\ tasks' = add_task(tasks, nextId, user_id, task_text,
                         IF due_dt # NoneDt THEN isoformat(due_dt) ELSE NULL)
    /\ nextId' = nextId + 1
    /\ timers' = IF due_dt # NoneDt
                 THEN run_once(timers, now, due_dt - now, user_id, nextId, task_text)
                 ELSE timers
    /\ last' = Last("create", user_id, nextId,
                    IF due_dt # NoneDt THEN "saved" ELSE "saved_no_deadline", <<>>)
    /\ UNCHANGED <<now, up, edit_task_id>>

create_task_parsed_keep_past(user_id, p) ==
    create_task_due(user_id, p[1], p[2], p[2])

create_task_parsed(user_id, p) ==
    create_task_due(user_id, p[1], p[2],
                    IF p[2] # NoneDt /\ p[2] <= now THEN NoneDt ELSE p[2])

\* create_new_task(update, context, user_id, text)
create_new_task(user_id, text) ==
    create_task_parsed(user_id, parse_task_and_due(text, now))

user_data_pop_keep(M, user_id) == M

\* context.user_data.pop("edit_task_id", None)
user_data_pop(M, user_id) == [M EXCEPT ![user_id] = 0]

edit_due_iso_drop_old(old_due_iso, new_due_dt, t) ==
    IF new_due_dt = NoneDt \/ new_due_dt <= t THEN NULL ELSE isoformat(new_due_dt)

\* The due_at an edit stores: the old one when the text gave none, NULL
\* when it gave one that is not in the future.
edit_due_iso(old_due_iso, new_due_dt, t) ==
    IF new_due_dt = NoneDt THEN old_due_iso
    ELSE IF new_due_dt <= t THEN NULL ELSE isoformat(new_due_dt)

\* process_edit_task_text, given the row read and the parse of the text.
edit_task_parsed(user_id, task_id, row, p) ==
    /\ edit_task_id' = user_data_pop(edit_task_id, user_id)
    /\ IF row = NULL
       THEN /\ last' = Last("edit", user_id, task_id, "not_found", <<>>)
            /\ UNCHANGED tasks
       ELSE /\ tasks' = update_task_due(
                           update_task_text(tasks, user_id, task_id,
                                            IF p[1] = <<>> THEN row[2] ELSE p[1]),
                           user_id, task_id, edit_due_iso(row[3], p[2], now))
            /\ last' = Last("edit", user_id, task_id, "updated", <<>>)
    /\ UNCHANGED <<nextId, timers, now, up>>

\* process_edit_task_text(update, context, user_id, text, edit_task_id)
process_edit_task_text(user_id, text, task_id) ==
    edit_task_parsed(user_id, task_id, get_task(tasks, user_id, task_id),
                     parse_task_and_due(text, now))

\* handle_text(update, context): the edit marker first, then the menu
\* buttons, then a new task.
handle_text(user_id, text) ==
    /\ up /\ Step
    /\ IF edit_task_id[user_id] # 0
       THEN process_edit_task_text(user_id, text, edit_task_id[user_id])
       ELSE IF Len(text) = 1 /\ text[1].k = "menu"
            THEN /\ last' = Last("menu", user_id, 0, "menu", <<>>)
                 /\ UNCHANGED <<tasks, nextId, timers, now, up, edit_task_id>>
            ELSE create_new_task(user_id, text)

(***************************************************************************)
(* Callback handlers.  Each takes the user who pressed the button and the  *)
(* fields of a well-formed token.                                          *)
(***************************************************************************)
\* on_reminder_done: rem_done:ID
on_reminder_done(user_id, task_id) ==
    /\ up /\ Step
    /\ tasks' = set_task_done(tasks, user_id, task_id, now)
    /\ last' = Last("rem_done", user_id, task_id, "done", <<>>)
    /\ UNCHANGED <<nextId, timers, now, up, edit_task_id>>

\* on_reminder_snooze: rem_snooze:ID:MINUTES
on_reminder_snooze(user_id, task_id, minutes) ==
    LET row         == get_task(tasks, user_id, task_id)
        task_text   == row[2]
        new_due     == now + minutes * SecPerMin
        new_due_iso == isoformat(new_due)
    IN  /\ up /\ Step
        /\ row # NULL => BagCardinality(timers) < MaxTimers
        /\ IF row = NULL
           THEN UNCHANGED <<tasks, timers>>
           ELSE /\ tasks' = update_task_due(tasks, user_id, task_id, new_due_iso)
                /\ timers' = run_once(timers, now, new_due - now, user_id, task_id, task_text)
        /\ last' = Last("snooze", user_id, task_id,
                        IF row = NULL THEN "not_found" ELSE "snoozed", <<>>)
        /\ UNCHANGED <<nextId, now, up, edit_task_id>>

remind_delay_no_floor(due_dt, t, mode) ==
    IF mode = "exact" THEN due_dt - t
    ELSE due_dt - int_of_mode(mode) * SecPerMin - t

\* The delay on_set_reminder gives the job: to due_dt for "exact", else to
\* MODE minutes before due_dt, or 5 seconds when that time is not ahead.
remind_delay(due_dt, t, mode) ==
    IF mode = "exact" THEN due_dt - t
    ELSE IF due_dt - int_of_mode(mode) * SecPerMin <= t
         THEN (t + 5) - t
         ELSE (due_dt - int_of_mode(mode) * SecPerMin) - t

\* on_set_reminder: set_remind:ID:MODE.  int(mode) is evaluated outside the
\* try block: a mode that is neither "exact" nor digits raises ValueError
\* out of the handler once the task and its due time have been read.
on_set_reminder(user_id, task_id, mode) ==
    LET row       == get_task(tasks, user_id, task_id)
        task_text == row[2]
        due_iso   == row[3]
        due_dt    == fromisoformat(due_iso)
        has_due   == row # NULL /\ due_iso # NULL
        raises    == has_due /\ mode # "exact" /\ ~is_int(mode)
        arms      == has_due /\ ~raises
    IN  /\ up /\ Step
        /\ arms => BagCardinality(timers) < MaxTimers
        /\ timers' = IF arms
                     THEN run_once(timers, now, remind_delay(due_dt, now, mode),
                                   user_id, task_id, task_text)
                     ELSE timers
        /\ last' = Last("set_remind", user_id, task_id,
                        IF row = NULL THEN "not_found"
                        ELSE IF due_iso = NULL THEN "no_deadline"
                        ELSE IF raises THEN "ValueError" ELSE "set", <<>>)
        /\ UNCHANGED <<tasks, nextId, now, up, edit_task_id>>

\* on_edit_select: edit:ID
on_edit_select(user_id, task_id) ==
    /\ up /\ Step
    /\ edit_task_id' = [edit_task_id EXCEPT ![user_id] = task_id]
    /\ last' = Last("edit_select", user_id, task_id, "enter_text", <<>>)
    /\ UNCHANGED <<tasks, nextId, timers, now, up>>

\* on_edit_back_to_tasks: edit_back_to_tasks
on_edit_back_to_tasks(user_id) ==
    /\ up /\ Step
    /\ edit_task_id' = user_data_pop(edit_task_id, user_id)
    /\ last' = Last("edit_back", user_id, 0, "list", <<>>)
    /\ UNCHANGED <<tasks, nextId, timers, now, up>>

\* on_delete_task: del:ID
on_delete_task(user_id, task_id) ==
    /\ up /\ Step
    /\ tasks' = delete_task(tasks, user_id, task_id)
    /\ last' = Last("delete", user_id, task_id, "deleted", <<>>)
    /\ UNCHANGED <<nextId, timers, now, up, edit_task_id>>

on_done_task_cancelling(user_id, task_id) ==
    /\ up /\ Step
    /\ tasks' = set_task_done(tasks, user_id, task_id, now)
    /\ timers' = SetToBag({j \in BagToSet(timers) : j.task_id # task_id})
    /\ last' = Last("done", user_id, task_id, "done", <<>>)
    /\ UNCHANGED <<nextId, now, up, edit_task_id>>

\* on_done_task: done:ID
on_done_task(user_id, task_id) ==
    /\ up /\ Step
    /\ tasks' = set_task_done(tasks, user_id, task_id, now)
    /\ last' = Last("done", user_id, task_id, "done", <<>>)
    /\ UNCHANGED <<nextId, timers, now, up, edit_task_id>>

\* A handler that returns from its "except ValueError" or from its test of
\* the number of fields: the query has been answered, nothing else is done.
callback_ignored(user_id) ==
    /\ up /\ Step
    /\ last' = Last("callback", user_id, 0, "ignored", <<>>)
    /\ UNCHANGED <<tasks, nextId, timers, now, up, edit_task_id>>

\* A callback query with data `data` (its fields) from user_id: the handler
\* the patterns of main() route it to, with that handler's own parsing of
\* the data.
on_callback_query(user_id, data) ==
    CASE data[1] = "rem_done" ->
            \* int(data.split(":", maxsplit=1)[1])
            IF Len(data) = 2 /\ is_int(data[2])
            THEN on_reminder_done(user_id, int_of_mode(data[2]))
            ELSE callback_ignored(user_id)
      [] data[1] = "rem_snooze" ->
            \* parts = data.split(":"); len(parts) != 3; int(parts[1]), int(parts[2])
            IF Len(data) = 3 /\ is_int(data[2]) /\ is_int(data[3])
            THEN on_reminder_snooze(user_id, int_of_mode(data[2]), int_of_mode(data[3]))
            ELSE callback_ignored(user_id)
      [] data[1] = "set_remind" ->
            \* _, task_id_str, mode = data.split(":"); int(task_id_str)
            IF Len(data) = 3 /\ is_int(data[2])
            THEN on_set_reminder(user_id, int_of_mode(data[2]), data[3])
            ELSE callback_ignored(user_id)
      [] data[1] = "edit" ->
            \* int(data.split(":")[1])
            IF is_int(data[2]) THEN on_edit_select(user_id, int_of_mode(data[2]))
            ELSE callback_ignored(user_id)
      [] data[1] = "del" ->
            IF is_int(data[2]) THEN on_delete_task(user_id, int_of_mode(data[2]))
            ELSE callback_ignored(user_id)
      [] data[1] = "done" ->
            IF is_int(data[2]) THEN on_done_task(user_id, int_of_mode(data[2]))
            ELSE callback_ignored(user_id)

(***************************************************************************)
(* Jobs, the clock and the process.                                        *)
(***************************************************************************)
\* send_reminder(context): the job queue runs a job whose time has come and
\* drops it; the message carries the job's task_text and task_id.
send_reminder_reads_store(job) ==
    /\ up
    /\ BagIn(job, timers)
    /\ job.fireAt <= now
    /\ timers' = timers (-) SetToBag({job})
    /\ last' = Last("send_reminder", job.chat_id, job.task_id, "reminder",
                    IF job.task_id \in DOMAIN tasks THEN tasks[job.task_id].text
                    ELSE job.task_text)
    /\ UNCHANGED <<tasks, nextId, now, up, edit_task_id>>

send_reminder_repeating(job) ==
    /\ up
    /\ BagIn(job, timers)
    /\ job.fireAt <= now
    /\ timers' = timers
    /\ last' = Last("send_reminder", job.chat_id, job.task_id, "reminder", job.task_text)
    /\ UNCHANGED <<tasks, nextId, now, up, edit_task_id>>

send_reminder(job) ==
    /\ up
    /\ BagIn(job, timers)
    /\ job.fireAt <= now
    /\ timers' = timers (-) SetToBag({job})
    /\ last' = Last("send_reminder", job.chat_id, job.task_id, "reminder", job.task_text)
    /\ UNCHANGED <<tasks, nextId, now, up, edit_task_id>>

\* format_tasks_message(title, tasks): the message has one item for each
\* row it is given; it is represented by the ids of the rows it lists,
\* written as a number with one bit for each id.
RECURSIVE format_tasks_message(_)
format_tasks_message(rows) ==
    IF rows = <<>> THEN 0
    ELSE 2 ^ (Head(rows)[1] - 1) + format_tasks_message(Tail(rows))

\* The orders in which a SELECT with no ORDER BY can return a set of rows.
Orders(S) ==
    {q \in [1..Cardinality(S) -> S] : \A a, b \in DOMAIN q : q[a] = q[b] => a = b}

RECURSIVE digest_sends_abort(_, _, _)
digest_sends_abort(T, user_ids, failing) ==
    IF user_ids = <<>> THEN <<>>
    ELSE IF get_tasks(T, Head(user_ids)) = <<>>
         THEN digest_sends_abort(T, Tail(user_ids), failing)
         ELSE IF Head(user_ids) \in failing
              THEN <<Tok("failed", Head(user_ids), format_tasks_message(get_tasks(T, Head(user_ids))))>>
              ELSE <<Tok("sent", Head(user_ids), format_tasks_message(get_tasks(T, Head(user_ids))))>>
                   \o digest_sends_abort(T, Tail(user_ids), failing)

\* The loop of send_daily_digest over user_ids: the send_message calls in
\* turn, each [k, h, m] with k "sent" or "failed" (send_message raised, the
\* chats of `failing` being out of reach), h the chat and m the tasks the
\* message lists.  A user with no active task is passed over.
RECURSIVE digest_sends(_, _, _)
digest_sends(T, user_ids, failing) ==
    IF user_ids = <<>> THEN <<>>
    ELSE IF get_tasks(T, Head(user_ids)) = <<>>
         THEN digest_sends(T, Tail(user_ids), failing)
         ELSE <<Tok(IF Head(user_ids) \in failing THEN "failed" ELSE "sent",
                    Head(user_ids), format_tasks_message(get_tasks(T, Head(user_ids))))>>
              \o digest_sends(T, Tail(user_ids), failing)

\* send_daily_digest(context): the daily job of the job queue.  The run
\* reads the store and not the clock; it is let run at any clock time.
send_daily_digest(user_ids, failing) ==
    /\ up /\ Step
    /\ user_ids \in Orders(get_users_with_tasks(tasks))
    /\ last' = Last("digest", 0, 0, "", digest_sends(tasks, user_ids, failing))
    /\ UNCHANGED <<tasks, nextId, timers, now, up, edit_task_id>>

\* The rows restore_reminders_on_startup selects: active, due_at IS NOT NULL.
restore_rows(T) == {i \in DOMAIN T : T[i].status = "active" /\ T[i].due_at # NULL}

restored_jobs_elapsed_too(T, t) ==
    {Job(i, T[i].user_id, t + (fromisoformat(T[i].due_at) - t), T[i].text) :
        i \in restore_rows(T)}

\* The jobs restore_reminders_on_startup arms at clock t.
restored_jobs(T, t) ==
    {Job(i, T[i].user_id, t + (fromisoformat(T[i].due_at) - t), T[i].text) :
        i \in {j \in restore_rows(T) : fromisoformat(T[j].due_at) > t}}

\* restore_reminders_on_startup(app): post_init of a starting process.
restore_reminders_on_startup ==
    /\ ~up /\ Step
    /\ up' = TRUE
    /\ timers' = SetToBag(restored_jobs(tasks, now))
    /\ last' = Last("restore", 0, 0, "", <<>>)
    /\ UNCHANGED <<tasks, nextId, now, edit_task_id>>

\* The process stops: the job queue and user_data are in memory only.
Crash ==
    /\ up /\ Step
    /\ up' = FALSE
    /\ timers' = EmptyBag
    /\ edit_task_id' = [u \in Users |-> 0]
    /\ last' = Last("crash", 0, 0, "", <<>>)
    /\ UNCHANGED <<tasks, nextId, now>>

\* The wall clock advances by TickStep.  A job whose time has come runs at
\* the next step of the job queue, which may be after its fireAt.
Tick ==
    /\ now' = now + TickStep
    /\ last' = Last("tick", 0, 0, "", <<>>)
    /\ UNCHANGED <<tasks, nextId, timers, up, edit_task_id>>

Next ==
    \/ \E u \in Users, text \in Messages : handle_text(u, text)
    \/ \E u \in Users, i \in TaskIds : on_reminder_done(u, i)
    \/ \E u \in Users, i \in TaskIds, m \in SnoozeMinutes : on_reminder_snooze(u, i, m)
    \/ \E u \in Users, i \in TaskIds, mode \in RemindModes : on_set_reminder(u, i, mode)
    \/ \E u \in Users, i \in TaskIds : on_edit_select(u, i)
    \/ \E u \in Users : on_edit_back_to_tasks(u)
    \/ \E u \in Users, i \in TaskIds : on_delete_task(u, i)
    \/ \E u \in Users, i \in TaskIds : on_done_task(u, i)
    \/ \E u \in Users, data \in OddTokens : on_callback_query(u, data)
    \/ \E failing \in SUBSET Users :
          \E user_ids \in Orders(get_users_with_tasks(tasks)) :
              send_daily_digest(user_ids, failing)
    \/ \E job \in BagToSet(timers) : Step /\ send_reminder(job)
    \/ restore_reminders_on_startup
    \/ Crash
    \/ Step /\ Tick

Spec == Init /\ [][Next]_vars

(***************************************************************************)
(* The bot with its job queue at work.  MaxActs bounds what the users and  *)
(* the operator do (messages, button presses, stops and starts); the job   *)
(* queue and the clock are not bounded by it: a job whose time has come is *)
(* run, and while a job waits for its time the clock goes on to reach it.  *)
(* Tick is time passing while the users are at work.                       *)
(***************************************************************************)
\* Some job waits for a time the clock has not reached.
Waiting == \E j \in BagToSet(timers) : j.fireAt > now

\* The job queue runs a job.
JobRuns ==
    \E job \in BagToSet(timers) : send_reminder(job) /\ UNCHANGED <<steps, frame, torn>>

\* The clock goes on to the time of the waiting job that is due first.
ClockRuns ==
    /\ Waiting
    /\ \E j \in BagToSet(timers) :
          /\ j.fireAt > now
          /\ \A k \in BagToSet(timers) : k.fireAt > now => j.fireAt <= k.fireAt
          /\ now' = j.fireAt
    /\ last' = Last("tick", 0, 0, "", <<>>)
    /\ UNCHANGED <<tasks, nextId, timers, up, edit_task_id, steps, frame, torn>>

\* The users and the operator have something left to do.
Act == steps < MaxActs

NextJobs ==
    \/ Act /\ \E u \in Users, text \in Messages : handle_text(u, text)
    \/ Act /\ \E u \in Users, i \in TaskIds : on_reminder_done(u, i)
    \/ Act /\ \E u \in Users, i \in TaskIds, m \in SnoozeMinutes : on_reminder_snooze(u, i, m)
    \/ Act /\ \E u \in Users, i \in TaskIds, mode \in RemindModes : on_set_reminder(u, i, mode)
    \/ Act /\ \E u \in Users, i \in TaskIds : on_edit_select(u, i)
    \/ Act /\ \E u \in Users : on_edit_back_to_tasks(u)
    \/ Act /\ \E u \in Users, i \in TaskIds : on_delete_task(u, i)
    \/ Act /\ \E u \in Users, i \in TaskIds : on_done_task(u, i)
    \/ Act /\ \E u \in Users, data \in OddTokens : on_callback_query(u, data)
    \/ Act /\ \E failing \in SUBSET Users :
          \E user_ids \in Orders(get_users_with_tasks(tasks)) :
              send_daily_digest(user_ids, failing)
    \/ Act /\ restore_reminders_on_startup
    \/ Act /\ Crash
    \/ Act /\ Step /\ Tick
    \/ JobRuns
    \/ ClockRuns

\* The scheduler of the job queue runs every job whose time has come, and
\* time passes.
SpecJobs == Init /\ [][NextJobs]_vars /\ WF_vars(JobRuns) /\ WF_vars(ClockRuns)

(***************************************************************************)
(* The parser on its own: a text has arrived at some time of day and       *)
(* parse_task_and_due is applied to it.  `last` holds the text, and after  *)
(* the parse the text, the task text returned and (as id) the due time     *)
(* returned.                                                               *)
(***************************************************************************)
\* The phrases texts are made of.
Phrases ==
    { <<Tok("word", 1, 0)>>,                                      \* "note"
      <<Tok("punct", 0, 0)>>,                                     \* ","
      <<Tok("do", 0, 0), Tok("num", 4, -1)>>,                     \* "до 4"
      <<Tok("do", 0, 0), Tok("num", 16, 30)>>,                    \* "к 16:30"
      <<Tok("do", 0, 0), Tok("num", 25, -1)>>,                    \* "до 25"
      <<Tok("do", 0, 0), Tok("num", 8, -1)>>,                     \* "до 8"
      <<Tok("do", 0, 0), Tok("num", 9, -1)>>,                     \* "к 9"
      <<Tok("v", 0, 0), Tok("num", 10, -1)>>,                     \* "в 10"
      <<Tok("v", 0, 0), Tok("num", 7, -1), Tok("chas", 0, 0), Tok("mer", 3, 0)>>,
                                                                  \* "в 7 часов вечера"
      <<Tok("num", 9, 15)>>,                                      \* "9:15"
      <<Tok("day", 0, 0)>>,                                       \* "сегодня"
      <<Tok("day", 1, 0)>> }                                      \* "завтра"

\* The concatenation of a sequence of phrases.
RECURSIVE join(_)
join(q) == IF q = <<>> THEN <<>> ELSE Head(q) \o join(Tail(q))

\* The texts of one to MaxPhrases phrases.
ParseTexts == {join(q) : q \in UNION {[1..n -> Phrases] : n \in 1..MaxPhrases}}

\* The times of day at which a text arrives: 09:00, 15:50, 16:00, 16:30.
ParseClocks ==
    { SecPerDay + 9 * SecPerHour, StartTime,
      SecPerDay + 16 * SecPerHour, SecPerDay + 16 * SecPerHour + 30 * SecPerMin }

InitParse ==
    /\ tasks = <<>>
    /\ nextId = 1
    /\ timers = EmptyBag
    /\ now \in ParseClocks
    /\ steps = 0
    /\ up = TRUE
    /\ edit_task_id = [u \in Users |-> 0]
    /\ \E text \in ParseTexts : last = Last("text", 0, 0, "", <<text>>)
    /\ frame = Idle
    /\ torn = {}

\* parse_task_and_due(text) at the clock `now`.
ParseText ==
    /\ last.op = "text"
    /\ last' = Last("parse", 0, parse_task_and_due(last.text[1], now)[2], "",
                    <<last.text[1], parse_task_and_due(last.text[1], now)[1]>>)
    /\ UNCHANGED <<tasks, nextId, timers, now, steps, up, edit_task_id, frame, torn>>

NextParse == ParseText

SpecParse == InitParse /\ [][NextParse]_vars

(***************************************************************************)
(* One user writing and rewriting tasks: text messages and the choice of a *)
(* task to edit, with texts that hold nothing but a deadline, a date or a  *)
(* comma among them.                                                       *)
(***************************************************************************)
TextMessages ==
    Phrases \cup
    { <<Tok("punct", 0, 0), Tok("do", 0, 0), Tok("num", 4, -1)>>,     \* ", до 4"
      <<Tok("word", 1, 0), Tok("do", 0, 0), Tok("num", 4, -1)>>,      \* "note до 4"
      <<Tok("do", 0, 0), Tok("num", 4, -1), Tok("day", 1, 0)>> }      \* "до 4 завтра"

NextTexts ==
    \/ \E text \in TextMessages : handle_text(1, text)
    \/ \E i \in TaskIds : on_edit_select(1, i)

SpecTexts == Init /\ [][NextTexts]_vars

(***************************************************************************)
(* The handlers that read a row and then write it, statement by statement. *)
(* The handlers and the jobs are coroutines of one event loop: one runs    *)
(* until its next await, and only there can the loop run something else.   *)
(* process_edit_task_text and on_reminder_snooze have no await between     *)
(* get_task and the reply.  Each function of db.py commits on its own, so  *)
(* a process that stops leaves in the table what was committed until then. *)
(***************************************************************************)
\* No handler is between two awaits.
AtAwait == frame.pc \in {"idle", "reply"}

\* An update or an act of the operator counts against MaxSteps.
Budget == steps < MaxSteps /\ steps' = steps + 1

\* process_edit_task_text from get_task to the values it is about to write.
edit_get_task(user_id, text) ==
    LET task_id == edit_task_id[user_id]
        row     == get_task(tasks, user_id, task_id)
        p       == parse_task_and_due(text, now)
    IN  /\ up /\ frame.pc = "idle" /\ Budget
        /\ task_id # 0
        /\ IF row = NULL
           THEN /\ edit_task_id' = user_data_pop(edit_task_id, user_id)
                /\ last' = Last("edit", user_id, task_id, "not_found", <<>>)
                /\ UNCHANGED frame
           ELSE /\ frame' = [pc |-> "update_task_text", user_id |-> user_id,
                             task_id |-> task_id,
                             text |-> IF p[1] = <<>> THEN row[2] ELSE p[1],
                             due_iso |-> edit_due_iso(row[3], p[2], now),
                             t |-> now]
                /\ last' = Last("get_task", user_id, task_id, "", <<>>)
                /\ UNCHANGED edit_task_id
        /\ UNCHANGED <<tasks, nextId, timers, now, up, torn>>

\* update_task_text(user_id, edit_task_id, new_text), committed.
edit_update_task_text ==
    LET row == get_task(tasks, frame.user_id, frame.task_id)
    IN  /\ up /\ frame.pc = "update_task_text"
        /\ tasks' = update_task_text(tasks, frame.user_id, frame.task_id, frame.text)
        /\ torn' = IF row # NULL /\ row[2] # frame.text /\ row[3] # frame.due_iso
                   THEN torn \cup {frame.task_id} ELSE torn
        /\ frame' = [frame EXCEPT !.pc = "update_task_due"]
        /\ last' = Last("update_task_text", frame.user_id, frame.task_id, "", <<>>)
        /\ UNCHANGED <<nextId, timers, now, steps, up, edit_task_id>>

\* update_task_due(user_id, edit_task_id, new_due_iso), committed, and the
\* marker popped; the handler then awaits reply_text.
edit_update_task_due ==
    /\ up /\ frame.pc = "update_task_due"
    /\ tasks' = update_task_due(tasks, frame.user_id, frame.task_id, frame.due_iso)
    /\ torn' = torn \ {frame.task_id}
    /\ edit_task_id' = user_data_pop(edit_task_id, frame.user_id)
    /\ frame' = [frame EXCEPT !.pc = "reply"]
    /\ last' = Last("edit", frame.user_id, frame.task_id, "updated", <<>>)
    /\ UNCHANGED <<nextId, timers, now, steps, up>>

\* on_reminder_snooze from get_task to the values it is about to write.
snooze_get_task(user_id, task_id, minutes) ==
    LET row == get_task(tasks, user_id, task_id)
    IN  /\ up /\ frame.pc = "idle" /\ Budget
        /\ row # NULL => BagCardinality(timers) < MaxTimers
        /\ IF row = NULL
           THEN /\ last' = Last("snooze", user_id, task_id, "not_found", <<>>)
                /\ UNCHANGED frame
           ELSE /\ frame' = [pc |-> "snooze_update_task_due", user_id |-> user_id,
                             task_id |-> task_id, text |-> row[2],
                             due_iso |-> isoformat(now + minutes * SecPerMin),
                             t |-> now]
                /\ last' = Last("get_task", user_id, task_id, "", <<>>)
        /\ UNCHANGED <<tasks, nextId, timers, now, up, edit_task_id, torn>>

\* update_task_due(user_id, task_id, new_due_iso) of the snooze, committed.
snooze_update_task_due ==
    /\ up /\ frame.pc = "snooze_update_task_due"
    /\ tasks' = update_task_due(tasks, frame.user_id, frame.task_id, frame.due_iso)
    /\ torn' = torn \ {frame.task_id}
    /\ frame' = [frame EXCEPT !.pc = "run_once"]
    /\ last' = Last("update_task_due", frame.user_id, frame.task_id, "", <<>>)
    /\ UNCHANGED <<nextId, timers, now, steps, up, edit_task_id>>

\* job_queue.run_once(send_reminder, when=delay, ...) of the snooze; the
\* handler then awaits edit_message_text.
snooze_run_once ==
    /\ up /\ frame.pc = "run_once"
    /\ timers' = run_once(timers, now, fromisoformat(frame.due_iso) - frame.t,
                          frame.user_id, frame.task_id, frame.text)
    /\ frame' = [frame EXCEPT !.pc = "reply"]
    /\ last' = Last("snooze", frame.user_id, frame.task_id, "snoozed", <<>>)
    /\ UNCHANGED <<tasks, nextId, now, steps, up, edit_task_id, torn>>

\* The awaited reply has been sent: the handler returns.
reply_sent ==
    /\ up /\ frame.pc = "reply"
    /\ frame' = Idle
    /\ last' = Last("reply", frame.user_id, frame.task_id, "", <<>>)
    /\ UNCHANGED <<tasks, nextId, timers, now, steps, up, edit_task_id, torn>>

\* The process stops wherever it is and is started again: the job queue,
\* user_data and the handler in flight are gone, the table is as committed,
\* and post_init runs restore_reminders_on_startup.
Restart ==
    /\ up /\ Budget
    /\ timers' = SetToBag(restored_jobs(tasks, now))
    /\ edit_task_id' = [u \in Users |-> 0]
    /\ frame' = Idle
    /\ last' = Last("restore", 0, 0, "", <<>>)
    /\ UNCHANGED <<tasks, nextId, now, up, torn>>

\* Updates are handled one after the other; a job can run while a handler
\* awaits its reply.
NextSteps ==
    \/ \E u \in Users, text \in Messages :
          frame.pc = "idle" /\ edit_task_id[u] = 0 /\ handle_text(u, text)
    \/ \E u \in Users, text \in Messages : edit_get_task(u, text)
    \/ edit_update_task_text
    \/ edit_update_task_due
    \/ \E u \in Users, i \in TaskIds, m \in SnoozeMinutes : snooze_get_task(u, i, m)
    \/ snooze_update_task_due
    \/ snooze_run_once
    \/ reply_sent
    \/ \E u \in Users, i \in TaskIds : frame.pc = "idle" /\ on_edit_select(u, i)
    \/ \E failing \in SUBSET Users :
          \E user_ids \in Orders(get_users_with_tasks(tasks)) :
              AtAwait /\ send_daily_digest(user_ids, failing)
    \/ \E job \in BagToSet(timers) : AtAwait /\ Step /\ send_reminder(job)
    \/ AtAwait /\ Step /\ Tick
    \/ Restart

SpecSteps == Init /\ [][NextSteps]_vars

(***************************************************************************)
(* Properties.                                                             *)
(***************************************************************************)
\* The ids of the rows a listing returns.
ids_of(rows) == {rows[k][1] : k \in 1..Len(rows)}

\* The jobs pending for one task.
jobs_of(Q, task_id) == {j \in BagToSet(Q) : j.task_id = task_id}

\* The handler run of this step is the text handler creating a new task.
IsCreate(u, text) ==
    /\ handle_text(u, text)
    /\ edit_task_id[u] = 0
    /\ ~(Len(text) = 1 /\ text[1].k = "menu")

\* The handler run of this step is the text handler editing a task it finds.
IsEdit(u, text) ==
    /\ handle_text(u, text)
    /\ edit_task_id[u] # 0
    /\ get_task(tasks, u, edit_task_id[u]) # NULL

\* C1: in every reachable state every task row has completed_at set if and
\* only if its status is done.
C1_CompletedIffDone ==
    \A i \in DOMAIN tasks :
        (tasks[i].completed_at # NULL) <=> (tasks[i].status = "done")

C1_Witness ==
    /\ last.op \in {"snooze", "edit"}
    /\ last.id \in DOMAIN tasks
    /\ tasks[last.id].status = "done"
    /\ tasks[last.id].completed_at # NULL

\* C2: a creation whose parsed due time is not strictly after now stores no
\* due time and arms no job; a creation arms a job only when the due time
\* it stored is present.
C2_PastDueDropped ==
    [][\A u \in Users, text \in Messages :
          (last'.op = "create" /\ last'.u = u /\ IsCreate(u, text)) =>
              /\ (parse_task_and_due(text, now)[2] # NoneDt
                    /\ parse_task_and_due(text, now)[2] <= now)
                 => (tasks'[nextId].due_at = NULL /\ timers' = timers)
              /\ timers' # timers => tasks'[nextId].due_at # NULL]_vars

C2_Witness ==
    /\ last.op = "create"
    /\ last.reply = "saved_no_deadline"
    /\ tasks[last.id].text = <<Tok("word", 3, 0)>>
    /\ tasks[last.id].due_at = NULL
    /\ jobs_of(timers, last.id) = {}

\* C3: right after restore the pending jobs are exactly one per task that
\* is active and whose stored due_at is strictly after now, firing at that
\* due_at; done tasks, tasks with no due time and tasks whose due time has
\* passed get none.
C3_RestoreExact ==
    last.op = "restore" =>
        /\ \A j \in BagToSet(timers) : CopiesIn(j, timers) = 1
        /\ \A i \in DOMAIN tasks :
              IF tasks[i].status = "active" /\ tasks[i].due_at # NULL
                 /\ fromisoformat(tasks[i].due_at) > now
              THEN /\ Cardinality(jobs_of(timers, i)) = 1
                   /\ \A j \in jobs_of(timers, i) :
                         /\ j.fireAt = fromisoformat(tasks[i].due_at)
                         /\ j.chat_id = tasks[i].user_id
              ELSE jobs_of(timers, i) = {}
        /\ \A j \in BagToSet(timers) : j.task_id \in DOMAIN tasks

C3_Witness ==
    /\ last.op = "restore"
    /\ \E i \in DOMAIN tasks : jobs_of(timers, i) # {}
    /\ \E i \in DOMAIN tasks : jobs_of(timers, i) = {}

\* C4: after completing a task of the user it is not in the user's active
\* list and is in the archive with completed_at set; after deleting, the
\* task is in neither list and get_task finds nothing.
C4_ListsAfterDoneDelete ==
    /\ (last.op \in {"done", "rem_done"} /\ get_task(tasks, last.u, last.id) # NULL)
       => /\ last.id \notin ids_of(get_tasks(tasks, last.u))
          /\ last.id \in get_archived_tasks(tasks, last.u)
          /\ tasks[last.id].completed_at # NULL
    /\ last.op = "delete"
       => /\ last.id \notin ids_of(get_tasks(tasks, last.u))
          /\ last.id \notin get_archived_tasks(tasks, last.u)
          /\ get_task(tasks, last.u, last.id) = NULL

C4_Witness ==
    /\ last.op \in {"done", "rem_done"}
    /\ get_task(tasks, last.u, last.id) # NULL
    /\ tasks[last.id].completed_at = CURRENT_TIMESTAMP(now)

\* C5: snoozing a task the user has by m minutes stores due_at = now + m
\* and adds exactly one job, for that task, firing at now + m, with the
\* text the task had when it was snoozed.
C5_Snooze ==
    [][\A u \in Users, i \in 1..MaxTasks, m \in SnoozeMinutes :
          (/\ last'.op = "snooze" /\ last'.u = u /\ last'.id = i
           /\ get_task(tasks, u, i) # NULL
           /\ on_reminder_snooze(u, i, m)) =>
              /\ fromisoformat(tasks'[i].due_at) = now + m * SecPerMin
              /\ timers' = timers (+)
                    SetToBag({Job(i, u, now + m * SecPerMin, tasks[i].text)})]_vars

C5_Witness ==
    /\ last.op = "snooze"
    /\ last.reply = "snoozed"
    /\ BagCardinality(timers) = 2

\* C6: deleting a task cancels its reminders: no job of a task that has
\* been deleted runs and sends a reminder.  (Ids are never given out twice,
\* so a job whose task is not in the table is a job of a deleted task.)
C6_DeleteCancels ==
    last.op = "send_reminder" => last.id \in DOMAIN tasks

\* This step arms a job for task i firing at t.
Armed(i, t) ==
    \E j \in jobs_of(timers', i) :
        j.fireAt = t /\ CopiesIn(j, timers') = CopiesIn(j, timers) + 1

\* C7: a job is armed whenever a due time is set: a creation that stores a
\* due time, a snooze, and an edit that stores a new due time in the
\* future each arm a job for the task firing at the due time stored.
C7_TimerWheneverDueSet ==
    [][/\ (last'.op = "create" /\ tasks'[last'.id].due_at # NULL)
          => Armed(last'.id, fromisoformat(tasks'[last'.id].due_at))
       /\ (last'.op = "snooze" /\ last'.reply = "snoozed")
          => Armed(last'.id, fromisoformat(tasks'[last'.id].due_at))
       /\ \A u \in Users, text \in Messages :
             (/\ last'.op = "edit" /\ last'.u = u
              /\ IsEdit(u, text)
              /\ parse_task_and_due(text, now)[2] > now)
             => Armed(last'.id, parse_task_and_due(text, now)[2])]_vars

\* C8: an edit of a task the user has keeps the stored due_at when the new
\* text yields no due time, clears it when the text yields a due time not
\* strictly after now, and stores the new due time when it is after now.
C8_EditDue ==
    [][\A u \in Users, text \in Messages :
          (last'.op = "edit" /\ last'.u = u /\ IsEdit(u, text)) =>
              /\ parse_task_and_due(text, now)[2] = NoneDt
                 => tasks'[edit_task_id[u]].due_at = tasks[edit_task_id[u]].due_at
              /\ (parse_task_and_due(text, now)[2] # NoneDt
                    /\ parse_task_and_due(text, now)[2] <= now)
                 => tasks'[edit_task_id[u]].due_at = NULL
              /\ parse_task_and_due(text, now)[2] > now
                 => /\ tasks'[edit_task_id[u]].due_at # NULL
                    /\ fromisoformat(tasks'[edit_task_id[u]].due_at)
                          = parse_task_and_due(text, now)[2]]_vars

C8_Witness ==
    /\ last.op = "edit"
    /\ last.reply = "updated"
    /\ tasks[last.id].text = <<Tok("word", 1, 0)>>
    /\ tasks[last.id].due_at # NULL

\* C9: completion is irreversible: a task whose status is done is done in
\* the next state or is gone, whatever runs, and while it is there it is in
\* no active list, among no rows a digest lists and among no rows restore
\* selects or arms.
C9_DoneStaysDone ==
    [][\A i \in DOMAIN tasks :
          tasks[i].status = "done" =>
              \/ i \notin DOMAIN tasks'
              \/ /\ tasks'[i].status = "done"
                 /\ \A u \in Users : i \notin ids_of(get_tasks(tasks', u))
                 /\ i \notin restore_rows(tasks')
                 /\ \A j \in restored_jobs(tasks', now') : j.task_id # i]_vars

C9_Witness ==
    /\ last.op \in {"snooze", "edit"}
    /\ last.reply \in {"snoozed", "updated"}
    /\ tasks[last.id].status = "done"

\* C10: deleting an id the user has no task for (never given out, already
\* deleted) changes no row, and deleting twice leaves the table a single
\* delete leaves.
C10_DeleteIdempotent ==
    [][\A u \in Users, i \in 1..MaxTasks :
          (last'.op = "delete" /\ last'.u = u /\ last'.id = i /\ on_delete_task(u, i)) =>
              /\ get_task(tasks, u, i) = NULL => tasks' = tasks
              /\ delete_task(tasks', u, i) = tasks'
              /\ last'.reply = "deleted"]_vars

C10_Witness ==
    /\ last.op = "delete"
    /\ last.id >= nextId
    /\ DOMAIN tasks # {}

C12_OneShot ==
    /\ [][\A job \in BagToSet(timers) :
             (last'.op = "send_reminder" /\ send_reminder(job)) =>
                 /\ timers' (+) SetToBag({job}) = timers
                 /\ last'.id = job.task_id
                 /\ last'.u = job.chat_id
                 /\ last'.text = job.task_text
                 /\ last'.reply = "reminder"]_vars
    /\ [][\A j \in BagToSet(timers) :
             CopiesIn(j, timers') < CopiesIn(j, timers) =>
                 \/ last'.op = "crash"
                 \/ /\ last'.op = "send_reminder"
                    /\ j.fireAt <= now
                    /\ CopiesIn(j, timers') = CopiesIn(j, timers) - 1
                    /\ last'.id = j.task_id
                    /\ last'.u = j.chat_id
                    /\ last'.text = j.task_text]_vars
    /\ <>[](~up \/ timers = EmptyBag)

C12_Witness ==
    /\ last.op = "send_reminder"
    /\ up
    /\ steps = MaxActs
    /\ timers = EmptyBag
    /\ last.id \in DOMAIN tasks
    /\ tasks[last.id].due_at # NULL
    /\ fromisoformat(tasks[last.id].due_at) <= now

\* C13: choosing a reminder offset for a task that has a due time arms one
\* job: for k minutes before, at due_at - k when that is strictly after now
\* and at now + 5 seconds otherwise; for "exact", at due_at even when
\* due_at is not after now.  The stored due_at is not changed.
C13_ReminderOffset ==
    [][\A u \in Users, i \in 1..MaxTasks, mode \in RemindModes :
          (/\ last'.op = "set_remind" /\ last'.u = u /\ last'.id = i
           /\ get_task(tasks, u, i) # NULL
           /\ tasks[i].due_at # NULL
           /\ on_set_reminder(u, i, mode)) =>
              /\ tasks' = tasks
              /\ timers' = timers (+) SetToBag({Job(i, u,
                    IF mode = "exact" THEN fromisoformat(tasks[i].due_at)
                    ELSE IF fromisoformat(tasks[i].due_at) - int_of_mode(mode) * SecPerMin > now
                         THEN fromisoformat(tasks[i].due_at) - int_of_mode(mode) * SecPerMin
                         ELSE now + 5,
                    tasks[i].text)})]_vars

C13_Witness ==
    /\ last.op = "set_remind"
    /\ last.reply = "set"
    /\ fromisoformat(tasks[last.id].due_at) > now
    /\ \E j \in jobs_of(timers, last.id) : j.fireAt = now + 5
    /\ \E j \in jobs_of(timers, last.id) : j.fireAt = fromisoformat(tasks[last.id].due_at)

\* C14: callback data that cannot be parsed is ignored: data with a task id
\* that is no integer, with a field too few or too many, with snooze
\* minutes that are no integer or with a reminder mode other than 5, 10, 60
\* and exact changes no row, arms no job, sets no edit marker and raises no
\* exception out of the handler.
C14_MalformedIgnored ==
    [][\A u \in Users, data \in OddTokens :
          (last'.u = u /\ on_callback_query(u, data)) =>
              /\ tasks' = tasks
              /\ timers' = timers
              /\ edit_task_id' = edit_task_id
              /\ last'.reply # "ValueError"]_vars

\* C15: a snooze, a reminder offset, an edit text, a completion from the
\* list or a completion from a reminder that names a task id the user has
\* no task for ends in "task not found", changes no row and arms no job.
C15_TaskNotFound ==
    [][(/\ last'.op \in {"snooze", "set_remind", "edit", "done", "rem_done"}
        /\ get_task(tasks, last'.u, last'.id) = NULL)
       => /\ last'.reply = "not_found"
          /\ tasks' = tasks
          /\ timers' = timers]_vars

\* The text of task i a job armed by this step carries, given the text the
\* task has when the step arms it.
Snapshot(i, text) ==
    \A j \in jobs_of(timers', i) :
        CopiesIn(j, timers') > CopiesIn(j, timers) => j.task_text = text

\* C16: the text a reminder delivers is the text the task had when the job
\* was armed: a job is armed with the text of the task at that moment, no
\* later step (an edit of the text among them) changes the text a pending
\* job carries, and the run of the job sends the text the job carries.
C16_SnapshotText ==
    [][/\ \A i \in 1..MaxTasks :
            /\ last'.op = "create" /\ last'.id = i => Snapshot(i, tasks'[i].text)
            /\ last'.op \in {"snooze", "set_remind"} /\ last'.id = i
               => Snapshot(i, tasks[i].text)
            /\ last'.op = "restore" => Snapshot(i, tasks[i].text)
       /\ last'.op \notin {"create", "snooze", "set_remind", "restore"}
          => \A j \in BagToSet(timers') : CopiesIn(j, timers') <= CopiesIn(j, timers)
       /\ \A job \in BagToSet(timers) :
             (last'.op = "send_reminder" /\ send_reminder(job))
                => last'.text = job.task_text]_vars

C16_Witness ==
    /\ last.op = "send_reminder"
    /\ last.id \in DOMAIN tasks
    /\ tasks[last.id].text # last.text
    /\ tasks[last.id].text = <<Tok("word", 1, 0)>>
    /\ last.text = <<Tok("word", 2, 0)>>

\* C17: a snooze, a reminder offset or an edit removes no job armed before
\* for the same task: every job pending before the step is pending after
\* it, as it was (same time, same text), so that a task can have two jobs
\* pending at once, and a job pending for a task whose due time an edit
\* has cleared.
C17_NoCancelOnRearm ==
    [][last'.op \in {"snooze", "set_remind", "edit"} =>
          /\ \A j \in BagToSet(timers) : CopiesIn(j, timers') >= CopiesIn(j, timers)
          /\ last'.reply \in {"snoozed", "set"}
             => BagCardinality(timers') = BagCardinality(timers) + 1]_vars

C17_Witness ==
    /\ last.op \in {"snooze", "set_remind"}
    /\ last.reply \in {"snoozed", "set"}
    /\ \E j, k \in jobs_of(timers, last.id) : j.fireAt < k.fireAt

\* C18: in one run of the daily digest a send that fails for one user does
\* not end the run: every user the run enumerates gets exactly one send,
\* failed for the users out of reach and delivered for the others, in the
\* order of the enumeration; no row is changed and no job is armed.
C18_DigestFailure ==
    [][\A failing \in SUBSET Users :
          \A user_ids \in Orders(get_users_with_tasks(tasks)) :
              (last'.op = "digest" /\ send_daily_digest(user_ids, failing)) =>
                  /\ tasks' = tasks
                  /\ timers' = timers
                  /\ Len(last'.text) = Len(user_ids)
                  /\ \A k \in 1..Len(user_ids) :
                        /\ last'.text[k].h = user_ids[k]
                        /\ last'.text[k].k = "failed" <=> user_ids[k] \in failing
                        /\ last'.text[k].k = "sent" <=> user_ids[k] \notin failing]_vars

C18_Witness ==
    /\ last.op = "digest"
    /\ Len(last.text) = 2
    /\ last.text[1].k = "failed"
    /\ last.text[2].k = "sent"
    /\ last.text[2].h = 1

\* The regex time of a text, <<hour, minute>> or NULL.
regex_time(raw) == find_time(raw)[3]

\* What the date search finds in a text after the span of its regex time
\* has been blanked and the hour phrases normalised.
phrase_matches(raw, t) ==
    search_dates(normalize_russian_time_phrases(clean_text_for_date(raw, find_time(raw))), t)

\* C19: when the parser finds a regex time H:M and the date search finds
\* nothing, the due time returned has the clock time H:M and is today when
\* today at H:M is strictly after now and tomorrow otherwise; it is
\* strictly after now and at most one day after now.
C19_TimeOnly ==
    (/\ last.op = "parse"
     /\ regex_time(last.text[1]) # NULL
     /\ phrase_matches(last.text[1], now) = <<>>) =>
        /\ last.id % SecPerDay = regex_time(last.text[1])[1] * SecPerHour
                                   + regex_time(last.text[1])[2] * SecPerMin
        /\ last.id \div SecPerDay =
              IF (now \div SecPerDay) * SecPerDay
                   + regex_time(last.text[1])[1] * SecPerHour
                   + regex_time(last.text[1])[2] * SecPerMin > now
              THEN now \div SecPerDay
              ELSE now \div SecPerDay + 1
        /\ last.id > now
        /\ last.id <= now + SecPerDay

C19_Witness ==
    /\ last.op = "parse"
    /\ regex_time(last.text[1]) = <<16, 0>>
    /\ phrase_matches(last.text[1], now) = <<>>
    /\ now % SecPerDay = 16 * SecPerHour
    /\ last.id = now + SecPerDay

\* C20: when the date search finds a phrase and the parser has a regex
\* time H:M, the due time returned is on the calendar day of the right-most
\* phrase found and has the clock time H:M, whatever clock time the date
\* search gave that day.
C20_DateFromPhrase ==
    (/\ last.op = "parse"
     /\ regex_time(last.text[1]) # NULL
     /\ phrase_matches(last.text[1], now) # <<>>) =>
        /\ last.id \div SecPerDay =
              phrase_matches(last.text[1], now)
                  [Len(phrase_matches(last.text[1], now))][2] \div SecPerDay
        /\ last.id % SecPerDay = regex_time(last.text[1])[1] * SecPerHour
                                   + regex_time(last.text[1])[2] * SecPerMin

C20_Witness ==
    /\ last.op = "parse"
    /\ regex_time(last.text[1]) = <<16, 0>>
    /\ Len(phrase_matches(last.text[1], now)) = 2
    /\ phrase_matches(last.text[1], now)[1][2] \div SecPerDay = now \div SecPerDay + 1
    /\ phrase_matches(last.text[1], now)[2][2] % SecPerDay = 9 * SecPerHour + 15 * SecPerMin
    /\ last.id = (now \div SecPerDay) * SecPerDay + 16 * SecPerHour

\* The hour and the minutes written in the deadline phrase at position i.
due_H(raw, i) == raw[i + 1].h
due_M(raw, i) == IF raw[i + 1].m = -1 THEN 0 ELSE raw[i + 1].m

\* The deadline phrase of raw (the first one) has its hour and minutes in range.
due_in_range(raw) ==
    /\ search_due(raw) # 0
    /\ due_H(raw, search_due(raw)) \in 0..23
    /\ due_M(raw, search_due(raw)) \in 0..59

\* C21: for a deadline phrase "до/к H[:M]" with H in 0..23 and M in 0..59
\* the time recorded is (H + 12):M when H is in 1..8 and H:M otherwise,
\* M being 0 when no minutes are written, and that is the clock time of
\* the due time returned, whatever clock phrase "в/на H" the text holds;
\* the clock phrase gives the time only when the deadline phrase recorded
\* none.
C21_DeadlineHour ==
    last.op = "parse" =>
        /\ due_in_range(last.text[1]) =>
              /\ regex_time(last.text[1]) =
                    << IF due_H(last.text[1], search_due(last.text[1])) \in 1..8
                       THEN due_H(last.text[1], search_due(last.text[1])) + 12
                       ELSE due_H(last.text[1], search_due(last.text[1])),
                       due_M(last.text[1], search_due(last.text[1])) >>
              /\ last.id % SecPerDay =
                    regex_time(last.text[1])[1] * SecPerHour
                    + regex_time(last.text[1])[2] * SecPerMin
        /\ (~due_in_range(last.text[1]) /\ search_at(last.text[1]) # 0) =>
              regex_time(last.text[1]) = time_at(last.text[1], search_at(last.text[1]))
        /\ (~due_in_range(last.text[1]) /\ search_at(last.text[1]) = 0) =>
              regex_time(last.text[1]) = NULL

C21_Witness ==
    /\ last.op = "parse"
    /\ search_due(last.text[1]) # 0
    /\ last.text[1][search_due(last.text[1]) + 1] = Tok("num", 8, -1)
    /\ search_at(last.text[1]) # 0
    /\ time_at(last.text[1], search_at(last.text[1])) = <<10, 0>>
    /\ last.id % SecPerDay = 20 * SecPerHour

\* What is left of a text when the span of its regex time and the phrase
\* the date search matched are taken out and the rest is stripped.
residue(raw, t) ==
    str_strip(cut_phrase(cut_time(raw, find_time(raw)), phrase_matches(raw, t)))

\* The text the parser is to return for raw read at t.
expected_text(raw, t) ==
    IF regex_time(raw) = NULL /\ phrase_matches(raw, t) = <<>> THEN raw
    ELSE IF residue(raw, t) = <<>> THEN Zadacha
    ELSE residue(raw, t)

\* C22: every stored task has a text that is not empty, whatever texts are
\* sent to create and to edit tasks: a creation stores the residue of the
\* text, the placeholder label when the residue is empty, and the text as
\* it is when it has no due time; an edit stores the same, and keeps the
\* task's text when the parsed text is empty.
C22_TextNonEmpty ==
    /\ [](\A i \in DOMAIN tasks : tasks[i].text # <<>>)
    /\ [][\A text \in TextMessages :
             (last'.op \in {"create", "edit"} /\ handle_text(1, text)) =>
                 /\ last'.op = "create"
                    => tasks'[last'.id].text = expected_text(text, now)
                 /\ (last'.op = "edit" /\ last'.reply = "updated")
                    => tasks'[last'.id].text =
                          IF parse_task_and_due(text, now)[1] = <<>>
                          THEN tasks[last'.id].text
                          ELSE expected_text(text, now)]_vars

C22_Witness ==
    /\ last.op = "edit"
    /\ last.reply = "updated"
    /\ tasks[last.id].text = Zadacha
    /\ \E i \in DOMAIN tasks : i # last.id /\ tasks[i].text = Zadacha /\ tasks[i].due_at # NULL

\* C23: an edit changes active tasks only: the text and the due time of a
\* task whose status is done are not changed by an edit, also when the
\* task was completed after it was chosen for editing.
C23_EditActiveOnly ==
    [][\A i \in DOMAIN tasks :
          (last'.op = "edit" /\ tasks[i].status = "done") =>
              /\ tasks'[i].text = tasks[i].text
              /\ tasks'[i].due_at = tasks[i].due_at]_vars

\* The message m lists the task with id i.
listed(m, i) == (m \div 2 ^ (i - 1)) % 2 = 1

C25_NoInterleave ==
    [][~AtAwait =>
          \/ last'.op \in {"update_task_text", "edit", "update_task_due", "snooze"}
               /\ last'.u = frame.user_id /\ last'.id = frame.task_id
          \/ last'.op = "restore" /\ tasks' = tasks]_vars

C25_Atomic ==
    /\ C25_NoInterleave
    /\ [][last'.op \in {"restore", "digest"} =>
              \A i \in torn : i \in DOMAIN tasks => tasks[i].status # "active"]_vars
    /\ [][last'.op = "get_task" => last'.id \notin torn]_vars

\* C26: completing, from the list or from a reminder, a task that is done
\* already leaves its row as it is: completed_at keeps the time of the first
\* completion.
C26_CompleteOnce ==
    [][\A i \in DOMAIN tasks :
          (last'.op \in {"done", "rem_done"} /\ tasks[i].status = "done") =>
              i \in DOMAIN tasks' /\ tasks'[i] = tasks[i]]_vars

\* C27: a user who completes, deletes, edits, snoozes or picks a reminder
\* offset with the id of another user's task changes no row, deletes none,
\* arms no job and is told nothing of the row: the handlers that read the
\* row answer that the task was not found.  Nothing that another user's
\* later steps depend on is changed.
C27_OwnerIsolation ==
    [][last'.op \in {"done", "rem_done", "delete", "edit", "snooze", "set_remind"} =>
          \A i \in DOMAIN tasks :
              (last'.id = i /\ last'.u # tasks[i].user_id) =>
                  /\ tasks' = tasks
                  /\ timers' = timers
                  /\ nextId' = nextId
                  /\ \A u \in Users \ {last'.u} : edit_task_id'[u] = edit_task_id[u]
                  /\ last'.op \in {"edit", "snooze", "set_remind"} =>
                        last'.reply = "not_found"]_vars

C27_Witness ==
    /\ last.op = "edit"
    /\ last.id \in DOMAIN tasks
    /\ tasks[last.id].user_id # last.u
    /\ tasks[last.id].status = "active"
    /\ last.reply = "not_found"

\* A pending job of a task that is done.
done_job(j) == j.task_id \in DOMAIN tasks /\ tasks[j.task_id].status = "done"

\* C28: completing a task, from the list or from a reminder, takes no job
\* off the queue; a job whose time has come can run whatever the status of
\* its task, and its run changes no row and sends the reminder with its
\* buttons; a job of a done task leaves the queue only by such a run or when
\* the process stops; and unless the process stops, every job of a done
\* task does run.
C28_FiresAfterDone ==
    /\ [][last'.op \in {"done", "rem_done"} => timers' = timers]_vars
    /\ [][last'.op = "send_reminder" =>
              /\ tasks' = tasks
              /\ last'.reply = "reminder"
              /\ \E j \in BagToSet(timers) :
                    /\ j.fireAt <= now
                    /\ timers' (+) SetToBag({j}) = timers
                    /\ last'.id = j.task_id
                    /\ last'.u = j.chat_id
                    /\ last'.text = j.task_text]_vars
    /\ [][\A j \in BagToSet(timers) :
              (done_job(j) /\ CopiesIn(j, timers') < CopiesIn(j, timers)) =>
                  \/ last'.op = "crash"
                  \/ last'.op = "send_reminder" /\ last'.id = j.task_id]_vars
    /\ [](\A j \in BagToSet(timers) :
              (up /\ j.fireAt <= now) =>
                  ENABLED (send_reminder(j) /\ UNCHANGED <<steps, frame, torn>>))
    /\ <>[](~up \/ \A j \in BagToSet(timers) : ~done_job(j))

C28_Witness ==
    /\ last.op = "send_reminder"
    /\ last.id \in DOMAIN tasks
    /\ tasks[last.id].status = "done"
    /\ tasks[last.id].completed_at # NULL
    /\ fromisoformat(tasks[last.id].completed_at) < now

\* The span of the regex match the time of raw was taken from: that of the
\* deadline pattern when it recorded the time, else that of the clock
\* pattern.
consumed_span(raw) ==
    IF find_time(raw)[2] = 0
    THEN group0_due(raw, find_time(raw)[1])
    ELSE group0_at(raw, find_time(raw)[2])

\* raw with the consumed span and the phrase of the date search taken out,
\* stripped.
consumed_residue(raw, t) ==
    str_strip(cut_phrase(str_replace(raw, consumed_span(raw), <<>>),
                         phrase_matches(raw, t)))

\* C29: when the parser returns a due time whose clock time came from a
\* regex match, the task text returned is the text with the span of that
\* match and the phrase of the date search removed (stripped, the
\* placeholder label when nothing is left); when the deadline pattern
\* matched out of range and the clock pattern gave the time, the clock span
\* is removed and the deadline span is kept.
C29_ConsumedSpan ==
    (/\ last.op = "parse"
     /\ last.id # NoneDt
     /\ regex_time(last.text[1]) # NULL) =>
        last.text[2] = IF consumed_residue(last.text[1], now) = <<>> THEN Zadacha
                       ELSE consumed_residue(last.text[1], now)

====
